---------------------------- MODULE Spec2Model ----------------------------
(***************************************************************************)
(* Compliance dashboard (React): state machines of its components.         *)
(*                                                                         *)
(*   SpecScan   the ScanProgress view: status polling of one scan          *)
(*   SpecTable  the ViolationsTable view: status updates and selection     *)
(*   Spec       the ComplianceDashboard orchestrator: refreshes            *)
(*   SpecView   the ViolationsTable view: sorting and row expansion        *)
(*   SpecPanel  the ComplianceDashboard orchestrator and its FilterPanel   *)
(*   SpecLife   the ComplianceDashboard orchestrator and its timers, from  *)
(*              mount to teardown                                          *)
(*   SpecDraft  the draft of the FilterPanel under its checkboxes          *)
(*   SpecProgress  the progress percentage of ScanProgress                 *)
(*   SpecApi    the error normalisation of ComplianceApiService            *)
(*   SpecBetweenRefreshes  the ViolationsTable view between two refreshes  *)
(*   SpecFiltered  the orchestrator with its FilterPanel and scan buttons  *)
(*   SpecFair   the orchestrator with its FilterPanel, mounted for good,   *)
(*              under fair timers and responses                            *)
(*                                                                         *)
(* Every handler runs to completion on the single UI thread; an `await`    *)
(* splits a handler into the part before the request is sent and the part  *)
(* run when the response arrives.  Requests in flight are state, and       *)
(* their responses may arrive in any order.                                *)
(***************************************************************************)
EXTENDS Integers, Sequences, FiniteSets

VARIABLES
    \* ScanProgress (src/unnamed/part_002, 724-895)
    scan,                 \* useState(initialScan): the displayed scan
    scanLoading,          \* useState(false): `loading` of ScanProgress
    pollTimer,            \* the 5 s interval of the polling effect is set
    polls,                \* getScanStatus requests, in issue order
    backendScanStatus,    \* the scan's status on the backend
    onScanCompleteCalls,  \* invocations of the onScanComplete prop
    terminalApplied,      \* history: a completed/failed response was applied
    \* browser console
    consoleErrors,        \* number of console.error reports
    \* ViolationsTable (src/compliance-dashboard/src/components/ViolationsTable.tsx)
    violations,           \* the violation list (dashboard state, table prop)
    selectedViolations,   \* useState(new Set())
    statusUpdates,        \* updateViolationStatus requests, in issue order
    onViolationUpdateCalls, \* invocations of the onViolationUpdate prop
    bulkClicks,           \* history: clicks on a Bulk Actions button
    sortField,            \* useState('detected_at')
    sortDirection,        \* useState('desc')
    expandedViolation,    \* useState(null)
    \* ComplianceDashboard (src/unnamed/part_002, 316-704)
    mounted,              \* the mount effects have run
    metrics,              \* useState(null)
    displayedFilters,
        \* history: the filters the displayed data was fetched with
    loading,              \* useState(true)
    error,                \* useState(null)
    lastRefresh,          \* useState(new Date())
    refreshTimer,         \* the auto-refresh interval is set
    refreshes,            \* loadDashboardData calls, in issue order
    scanStarts,           \* startNewScan calls, in issue order
    now,                  \* the clock: one tick per response received
    lastSettled,          \* history: the refresh that settled last (0: none)
    lastDelivered,        \* history: payload of the refresh that resolved last
    activeScans,          \* useState([])
    filters,              \* useState(initialFilters): the applied filters
    showFilters,          \* useState(false): the filter panel is rendered
    tornDown,             \* the component has been unmounted
    requestFilters,       \* the filters each loadDashboardData call sent
    \* FilterPanel (src/unnamed/part_002, 19-28)
    localFilters,
            \* useState(filters): the draft; NoPanel without panel
    localIsProp,          \* the draft is still the object passed as `filters`
    draftDiscarded,       \* history: a panel went away with an edited draft
    \* ComplianceApiService (src/compliance-dashboard/src/App.tsx, 86-127)
    apiFailure,           \* the error the response interceptor last received
    rejection             \* what the interceptor rejected that request with

scanVars == <<scan, scanLoading, pollTimer, polls, backendScanStatus,
              onScanCompleteCalls, terminalApplied>>
tableVars == <<selectedViolations, statusUpdates, onViolationUpdateCalls,
               bulkClicks>>
dashVars == <<mounted, metrics, displayedFilters, loading, error, lastRefresh,
              refreshTimer,
              refreshes, scanStarts, now, lastSettled, lastDelivered>>
viewVars == <<sortField, sortDirection, expandedViolation>>
panelVars == <<filters, showFilters, localFilters, localIsProp,
               draftDiscarded>>
lifeVars == <<activeScans, tornDown>>
apiVars == <<apiFailure, rejection>>

vars == <<scanVars, consoleErrors, violations, tableVars, dashVars, viewVars,
          panelVars, lifeVars, requestFilters, apiVars>>

\* Bounds of the model
MaxPolls == 3
MaxUpdates == 2
MaxBulkClicks == 1
MaxRefresh == 2
MaxScanStarts == 1
MaxRows == 3
MaxResources == 10
MaxFailures == 2

Null == "null"

-----------------------------------------------------------------------------
(***************************************************************************)
(* Data types (src/unnamed/part_001)                                       *)
(***************************************************************************)
ScanStatus == {"running", "completed", "failed"}
TerminalStatus == {"completed", "failed"}
ViolationStatus == {"OPEN", "IN_PROGRESS", "RESOLVED", "ACCEPTED"}

Violation(id, st) == [violation_id |-> id, status |-> st]

\* The violation lists a getViolations response may carry.
ViolationLists ==
    { <<>>,
      <<Violation("v1", "OPEN"), Violation("v2", "OPEN")>>,
      <<Violation("v1", "OPEN"), Violation("v2", "IN_PROGRESS")>>,
      <<Violation("v1", "RESOLVED"), Violation("v2", "OPEN")>>,
      <<Violation("v2", "ACCEPTED")>> }

\* The metrics a getDashboardMetrics response may carry.
MetricsValues == {"m1", "m2"}

Last(s) == s[Len(s)]

-----------------------------------------------------------------------------
(***************************************************************************)
(* ScanProgress                                                            *)
(***************************************************************************)
InitScan ==
    /\ scan = [scan_id |-> "s1", status |-> "running"]
    /\ scanLoading = FALSE
    /\ pollTimer = TRUE
    /\ polls = <<>>
    /\ backendScanStatus = "running"
    /\ onScanCompleteCalls = 0
    /\ terminalApplied = FALSE

\* The polling effect: an interval exists exactly while the status the
\* effect last ran for is 'running' (the cleanup clears the previous one).
PollingEffect(status) == status = "running"

\* updateScanStatus up to its await: setLoading(true), send the request.
UpdateScanStatusSend(src) ==
    /\ Len(polls) < MaxPolls
    /\ scanLoading' = TRUE
    /\ polls' = Append(polls, [src |-> src, phase |-> "sent", resp |-> "none"])
    /\ UNCHANGED <<scan, pollTimer, backendScanStatus, onScanCompleteCalls,
                   terminalApplied, consoleErrors>>

\* The interval fires.
PollTick ==
    /\ pollTimer
    /\ UpdateScanStatusSend("auto")
    /\ UNCHANGED <<violations, tableVars, dashVars, viewVars, apiVars,
                   panelVars, lifeVars,
                   requestFilters>>

\* The Refresh button of the scan card (disabled while loading).
ScanRefreshClick ==
    /\ ~scanLoading
    /\ UpdateScanStatusSend("manual")
    /\ UNCHANGED <<violations, tableVars, dashVars, viewVars, apiVars,
                   panelVars, lifeVars,
                   requestFilters>>

\* The scan ends on the backend; terminal statuses are never left.
BackendScanEnds(s) ==
    /\ backendScanStatus = "running"
    /\ backendScanStatus' = s
    /\ UNCHANGED <<scan, scanLoading, pollTimer, polls, onScanCompleteCalls,
                   terminalApplied, consoleErrors, violations, tableVars,
                   dashVars, viewVars, apiVars, panelVars, lifeVars,
                   requestFilters>>

\* The backend answers request i with its current status, or the request
\* fails (server error, network error, timeout).
BackendServesPoll(i, ok) ==
    /\ polls[i].phase = "sent"
    /\ polls' = [polls EXCEPT ![i].phase = "served",
                              ![i].resp = IF ok THEN backendScanStatus
                                          ELSE "error"]
    /\ UNCHANGED <<scan, scanLoading, pollTimer, backendScanStatus,
                   onScanCompleteCalls, terminalApplied, consoleErrors,
                   violations, tableVars, dashVars, viewVars, apiVars,
                   panelVars, lifeVars,
                   requestFilters>>

\* Whether a response makes updateScanStatus invoke onScanComplete.
NotifiesScanComplete(oldStatus, newStatus) == newStatus = "completed"

\* updateScanStatus after its await, for the response of request i.
PollResponse(i) ==
    /\ polls[i].phase = "served"
    /\ polls' = [polls EXCEPT ![i].phase = "done", ![i].resp = "none"]
    /\ IF polls[i].resp = "error"
       THEN /\ consoleErrors' = consoleErrors + 1
            /\ UNCHANGED <<scan, pollTimer, onScanCompleteCalls,
                           terminalApplied>>
       ELSE /\ scan' = [scan EXCEPT !.status = polls[i].resp]
            /\ onScanCompleteCalls' =
                 IF NotifiesScanComplete(scan.status, polls[i].resp)
                 THEN onScanCompleteCalls + 1
                 ELSE onScanCompleteCalls
            /\ pollTimer' = PollingEffect(polls[i].resp)
            /\ terminalApplied' =
                 (terminalApplied \/ polls[i].resp \in TerminalStatus)
            /\ UNCHANGED consoleErrors
    /\ scanLoading' = FALSE
    /\ UNCHANGED <<backendScanStatus, violations, tableVars, dashVars,
                   viewVars, apiVars, panelVars, lifeVars,
                   requestFilters>>

\* Math.round(numerator / denominator) for a non-negative numerator and a
\* positive denominator: the nearest integer, a half rounded up.
MathRound(numerator, denominator) ==
    (2 * numerator + denominator) \div (2 * denominator)

\* Variant: the percentage is cut off, not rounded.
progressPercentageFloor(s) ==
    IF s.total_resources > 0
    THEN (s.scanned_resources * 100) \div s.total_resources
    ELSE 0

\* progressPercentage of the scan s.
progressPercentage(s) ==
    IF s.total_resources > 0
    THEN MathRound(s.scanned_resources * 100, s.total_resources)
    ELSE 0

\* What the progress bar shows.
DisplayedProgress == progressPercentage(scan)

\* A status poll of a running scan, request and response in one step:
\* setScan(updatedScan) with the resource counts the backend reports.
ScanCountsUpdate(total, scanned) ==
    /\ scan.status = "running"
    /\ scan' = [scan EXCEPT !.total_resources = total,
                            !.scanned_resources = scanned]
    /\ UNCHANGED <<scanLoading, pollTimer, polls, backendScanStatus,
                   onScanCompleteCalls, terminalApplied, consoleErrors,
                   violations, tableVars, dashVars, viewVars, apiVars,
                   panelVars,
                   lifeVars, requestFilters>>

\* The progress bar of a running scan under the counts the backend reports.
NextProgress ==
    \E total \in 0..MaxResources, scanned \in 0..MaxResources :
        ScanCountsUpdate(total, scanned)

NextScan ==
    \/ PollTick
    \/ ScanRefreshClick
    \/ \E s \in TerminalStatus : BackendScanEnds(s)
    \/ \E i \in DOMAIN polls, ok \in BOOLEAN : BackendServesPoll(i, ok)
    \/ \E i \in DOMAIN polls : PollResponse(i)

-----------------------------------------------------------------------------
(***************************************************************************)
(* ViolationsTable                                                         *)
(***************************************************************************)
InitTable ==
    /\ selectedViolations = {}
    /\ statusUpdates = <<>>
    /\ onViolationUpdateCalls = 0
    /\ bulkClicks = 0
    /\ sortField = "detected_at"
    /\ sortDirection = "desc"
    /\ expandedViolation = Null

DisplayedIds == {violations[k].violation_id : k \in DOMAIN violations}

\* Variant: the select is hidden for resolved violations only.
StatusSelectOptionsUnlessResolved(v) ==
    IF v.status # "RESOLVED"
    THEN {"", "IN_PROGRESS", "RESOLVED", "ACCEPTED"}
    ELSE {}

\* The option values of the inline <select> rendered in a row's Actions
\* cell; "" is the 'Update Status' placeholder.  No select is rendered
\* unless the row's status is OPEN.
StatusSelectOptions(v) ==
    IF v.status = "OPEN"
    THEN {"", "IN_PROGRESS", "RESOLVED", "ACCEPTED"}
    ELSE {}

\* updateViolationStatus up to its await: the PATCH request is sent.
UpdateViolationStatusSend(violationId, newStatus) ==
    /\ Len(statusUpdates) < MaxUpdates
    /\ statusUpdates' = Append(statusUpdates,
           [violation_id |-> violationId, status |-> newStatus,
            phase |-> "pending"])
    /\ UNCHANGED <<violations, selectedViolations, onViolationUpdateCalls,
                   bulkClicks, consoleErrors>>

\* onChange of the select in row k.
StatusSelectChange(k, value) ==
    /\ value \in StatusSelectOptions(violations[k])
    /\ IF value # ""
       THEN UpdateViolationStatusSend(violations[k].violation_id, value)
       ELSE UNCHANGED <<violations, tableVars, consoleErrors>>
    /\ UNCHANGED <<scanVars, dashVars, viewVars, apiVars, panelVars, lifeVars,
                   requestFilters>>

\* updateViolationStatus after its await, request i succeeded.
UpdateViolationStatusThen(i) ==
    /\ statusUpdates' = [statusUpdates EXCEPT ![i].phase = "ok"]
    /\ onViolationUpdateCalls' = onViolationUpdateCalls + 1
    /\ UNCHANGED <<violations, selectedViolations, bulkClicks, consoleErrors>>

\* Variant: the callback runs in a finally block, so also after a failure.
UpdateViolationStatusCatchNotifies(i) ==
    /\ statusUpdates' = [statusUpdates EXCEPT ![i].phase = "failed"]
    /\ consoleErrors' = consoleErrors + 1
    /\ onViolationUpdateCalls' = onViolationUpdateCalls + 1
    /\ UNCHANGED <<violations, selectedViolations, bulkClicks>>

\* updateViolationStatus, request i failed: the catch block.
UpdateViolationStatusCatch(i) ==
    /\ statusUpdates' = [statusUpdates EXCEPT ![i].phase = "failed"]
    /\ consoleErrors' = consoleErrors + 1
    /\ UNCHANGED <<violations, selectedViolations, onViolationUpdateCalls,
                   bulkClicks>>

\* The backend answers PATCH request i.
StatusUpdateResolves(i, ok) ==
    /\ statusUpdates[i].phase = "pending"
    /\ IF ok THEN UpdateViolationStatusThen(i)
             ELSE UpdateViolationStatusCatch(i)
    /\ UNCHANGED <<scanVars, dashVars, viewVars, apiVars, panelVars, lifeVars,
                   requestFilters>>

\* The checkbox of row k.
ToggleRow(k) ==
    /\ selectedViolations' =
         IF violations[k].violation_id \in selectedViolations
         THEN selectedViolations \ {violations[k].violation_id}
         ELSE selectedViolations \cup {violations[k].violation_id}
    /\ UNCHANGED <<violations, statusUpdates, onViolationUpdateCalls,
                   bulkClicks, consoleErrors, scanVars, dashVars, viewVars,
                   apiVars, panelVars, lifeVars,
                   requestFilters>>

\* The `checked` attribute of the select-all checkbox.
AllChecked ==
    Cardinality(selectedViolations) = Len(violations) /\ Len(violations) > 0

\* The select-all checkbox (the table is rendered only for a non-empty list).
ToggleAll ==
    /\ Len(violations) > 0
    /\ selectedViolations' = IF AllChecked THEN {} ELSE DisplayedIds
    /\ UNCHANGED <<violations, statusUpdates, onViolationUpdateCalls,
                   bulkClicks, consoleErrors, scanVars, dashVars, viewVars,
                   apiVars, panelVars, lifeVars,
                   requestFilters>>

\* A button of the Bulk Actions bar: the buttons carry no onClick handler.
BulkActionClick(newStatus) ==
    /\ Len(violations) > 0
    /\ selectedViolations # {}
    /\ bulkClicks < MaxBulkClicks
    /\ bulkClicks' = bulkClicks + 1
    /\ UNCHANGED <<violations, selectedViolations, statusUpdates,
                   onViolationUpdateCalls, consoleErrors, scanVars, dashVars,
                   viewVars, apiVars, panelVars, lifeVars,
                   requestFilters>>

\* The parent re-renders the table with a freshly fetched list.
ParentRender(list) ==
    /\ violations' = list
    /\ list # violations
    /\ UNCHANGED <<tableVars, consoleErrors, scanVars, dashVars, viewVars,
                   apiVars, panelVars, lifeVars,
                   requestFilters>>

NextTable ==
    \/ \E k \in DOMAIN violations,
          value \in {"", "IN_PROGRESS", "RESOLVED", "ACCEPTED", "OPEN"} :
              StatusSelectChange(k, value)
    \/ \E i \in DOMAIN statusUpdates, ok \in BOOLEAN : StatusUpdateResolves(i, ok)
    \/ \E k \in DOMAIN violations : ToggleRow(k)
    \/ ToggleAll
    \/ \E s \in {"IN_PROGRESS", "RESOLVED", "ACCEPTED"} : BulkActionClick(s)
    \/ \E list \in ViolationLists : ParentRender(list)

\* The table between two refreshes: the parent hands it no new list.
NextBetweenRefreshes ==
    \/ \E k \in DOMAIN violations,
          value \in {"", "IN_PROGRESS", "RESOLVED", "ACCEPTED", "OPEN"} :
              StatusSelectChange(k, value)
    \/ \E i \in DOMAIN statusUpdates, ok \in BOOLEAN : StatusUpdateResolves(i, ok)
    \/ \E k \in DOMAIN violations : ToggleRow(k)
    \/ ToggleAll
    \/ \E s \in {"IN_PROGRESS", "RESOLVED", "ACCEPTED"} : BulkActionClick(s)

-----------------------------------------------------------------------------
(***************************************************************************)
(* ViolationsTable: sorting and row expansion                              *)
(***************************************************************************)
SortFields == {"detected_at", "severity", "policy_name", "resource.name",
               "status"}

\* The rows the sorted table is exercised with: every severity, and in
\* every other column both equal and different keys.
RowTemplates ==
    { [severity |-> "CRITICAL", detected_at |-> "2024-03-02T08:00:00Z",
       policy_name |-> "alpha", resource |-> [name |-> "Db"],
       status |-> "OPEN"],
      [severity |-> "HIGH", detected_at |-> "2024-03-01T08:00:00Z",
       policy_name |-> "Beta", resource |-> [name |-> "db"],
       status |-> "RESOLVED"],
      [severity |-> "MEDIUM", detected_at |-> "2024-03-02T08:00:00Z",
       policy_name |-> "beta", resource |-> [name |-> "api"],
       status |-> "OPEN"],
      [severity |-> "LOW", detected_at |-> "2024-03-03T08:00:00Z",
       policy_name |-> "Alpha", resource |-> [name |-> "cache"],
       status |-> "IN_PROGRESS"] }

RowIds == <<"v1", "v2", "v3", "v4", "v5", "v6">>

Row(k, t) ==
    [violation_id |-> RowIds[k], status |-> t.status, severity |-> t.severity,
     detected_at |-> t.detected_at, policy_name |-> t.policy_name,
     resource |-> t.resource]

\* The violation lists of at most MaxRows rows, with unique ids.
SortInputs ==
    UNION { { [k \in 1..n |-> Row(k, f[k])] : f \in [1..n -> RowTemplates] } :
            n \in 0..MaxRows }

\* new Date(iso).getTime(), in days since the epoch.
GetTime(iso) ==
    CASE iso = "2024-03-01T08:00:00Z" -> 19783
      [] iso = "2024-03-02T08:00:00Z" -> 19784
      [] iso = "2024-03-03T08:00:00Z" -> 19785

\* String.prototype.toLowerCase().
ToLowerCase(str) ==
    CASE str = "Alpha" -> "alpha"
      [] str = "alpha" -> "alpha"
      [] str = "Beta" -> "beta"
      [] str = "beta" -> "beta"
      [] str = "Db" -> "db"
      [] str = "db" -> "db"
      [] str = "api" -> "api"
      [] str = "cache" -> "cache"

\* The strings that are compared, in the order of their UTF-16 code units.
CodeUnitOrder ==
    <<"ACCEPTED", "IN_PROGRESS", "OPEN", "RESOLVED",
      "alpha", "api", "beta", "cache", "db">>

CodeUnitRank(str) == CHOOSE k \in DOMAIN CodeUnitOrder : CodeUnitOrder[k] = str

\* Variant: the severities are compared by their names.
severityOrderByName == [CRITICAL |-> 1, HIGH |-> 2, LOW |-> 3, MEDIUM |-> 4]

severityOrder == [CRITICAL |-> 4, HIGH |-> 3, MEDIUM |-> 2, LOW |-> 1]

\* aValue / bValue of the comparator, per sort field.
SortValue(v, field) ==
    CASE field = "detected_at" -> GetTime(v.detected_at)
      [] field = "severity" -> severityOrder[v.severity]
      [] field = "policy_name" -> ToLowerCase(v.policy_name)
      [] field = "resource.name" -> ToLowerCase(v.resource.name)
      [] field = "status" -> v.status

\* The < operator on two keys of a field: numbers, or strings.
LessThan(field, x, y) ==
    IF field \in {"detected_at", "severity"}
    THEN x < y
    ELSE CodeUnitRank(x) < CodeUnitRank(y)

\* Variant: the first test is `aValue <= bValue`.
CompareFnTiesAsLess(a, b, field, direction) ==
    IF ~LessThan(field, SortValue(b, field), SortValue(a, field))
    THEN (IF direction = "asc" THEN -1 ELSE 1)
    ELSE (IF direction = "asc" THEN 1 ELSE -1)

\* The comparator passed to sort.
CompareFn(a, b, field, direction) ==
    IF LessThan(field, SortValue(a, field), SortValue(b, field))
    THEN (IF direction = "asc" THEN -1 ELSE 1)
    ELSE IF LessThan(field, SortValue(b, field), SortValue(a, field))
    THEN (IF direction = "asc" THEN 1 ELSE -1)
    ELSE 0

\* Array.prototype.sort is stable: x goes behind every element that the
\* comparator does not put after it.
RECURSIVE InsertSorted(_, _, _, _)
InsertSorted(sorted, x, field, direction) ==
    IF sorted = <<>> THEN <<x>>
    ELSE IF CompareFn(Last(sorted), x, field, direction) > 0
    THEN Append(InsertSorted(SubSeq(sorted, 1, Len(sorted) - 1), x, field,
                             direction),
                Last(sorted))
    ELSE Append(sorted, x)

RECURSIVE ArraySort(_, _, _)
ArraySort(list, field, direction) ==
    IF list = <<>> THEN <<>>
    ELSE LET front == ArraySort(SubSeq(list, 1, Len(list) - 1), field,
                               direction)
         IN  InsertSorted(front, Last(list), field, direction)

\* The rows in display order.
sortedViolations == ArraySort(violations, sortField, sortDirection)

\* Variant: a new sort field keeps the direction in use.
HandleSortKeepsDirection(field) ==
    /\ Len(violations) > 0
    /\ IF sortField = field
       THEN /\ sortDirection' = IF sortDirection = "asc" THEN "desc" ELSE "asc"
            /\ UNCHANGED sortField
       ELSE /\ sortField' = field
            /\ UNCHANGED sortDirection
    /\ UNCHANGED <<expandedViolation, violations, tableVars, consoleErrors,
                   scanVars, dashVars, panelVars, lifeVars, requestFilters,
                   apiVars>>

\* handleSort: a click on a sortable column header.
HandleSort(field) ==
    /\ Len(violations) > 0
    /\ IF sortField = field
       THEN /\ sortDirection' = IF sortDirection = "asc" THEN "desc" ELSE "asc"
            /\ UNCHANGED sortField
       ELSE /\ sortField' = field
            /\ sortDirection' = "desc"
    /\ UNCHANGED <<expandedViolation, violations, tableVars, consoleErrors,
                   scanVars, dashVars, panelVars, lifeVars, requestFilters,
                   apiVars>>

\* The detail row is rendered below the row of violation v.
DetailsExpanded(v) == expandedViolation = v.violation_id

\* Variant: the test is `expandedViolation ? null : violation_id`.
ToggleDetailsWhenNoneOpen(k) ==
    /\ k \in DOMAIN violations
    /\ expandedViolation' = IF expandedViolation # Null
                            THEN Null
                            ELSE sortedViolations[k].violation_id
    /\ UNCHANGED <<sortField, sortDirection, violations, tableVars,
                   consoleErrors, scanVars, dashVars, panelVars, lifeVars,
                   requestFilters, apiVars>>

\* The Details / Hide button of displayed row k.
ToggleDetails(k) ==
    /\ k \in DOMAIN violations
    /\ LET violation == sortedViolations[k]
       IN  expandedViolation' =
              IF expandedViolation = violation.violation_id
              THEN Null
              ELSE violation.violation_id
    /\ UNCHANGED <<sortField, sortDirection, violations, tableVars,
                   consoleErrors, scanVars, dashVars, panelVars, lifeVars,
                   requestFilters, apiVars>>

NextView ==
    \/ \E field \in SortFields : HandleSort(field)
    \/ \E k \in 1..Len(violations) : ToggleDetails(k)

-----------------------------------------------------------------------------
(***************************************************************************)
(* ComplianceDashboard                                                     *)
(***************************************************************************)
refreshInterval == 30000

LoadErrorMessage == "Failed to load compliance data. Please check your connection."
ScanErrorMessage == "Failed to start compliance scan. Please try again."

\* A dimension of the filters that is not set (`undefined`).
Undefined == <<"undefined">>

\* The dimensions of ComplianceFilters; date_range is the pair
\* <<start_date, end_date>>.
FilterFields ==
    {"providers", "severities", "account_ids", "frameworks", "statuses",
     "date_range"}

\* initialFilters = {}: no dimension of the filters is set.
initialFilters == [field \in FilterFields |-> Undefined]

\* The draft of a filter panel that is not rendered.
NoPanel == [field \in FilterFields |-> <<"no panel">>]

\* A property that an object does not have.
NoValue == "<undefined>"

\* No request has failed yet.
NoFailure == [kind |-> "none"]

NoRejection == [kind |-> "none"]

\* The filters of displayed data while no data is displayed.
NoData == [field \in FilterFields |-> <<"no data">>]

InitDash ==
    /\ mounted = FALSE
    /\ metrics = Null
    /\ displayedFilters = NoData
    /\ loading = TRUE
    /\ error = Null
    /\ lastRefresh = 0
    /\ refreshTimer = FALSE
    /\ refreshes = <<>>
    /\ scanStarts = <<>>
    /\ now = 0
    /\ lastSettled = 0
    /\ lastDelivered = [metrics |-> Null, violations |-> <<>>]
    /\ activeScans = <<>>
    /\ filters = initialFilters
    /\ showFilters = FALSE
    /\ tornDown = FALSE
    /\ requestFilters = <<>>
    /\ localFilters = NoPanel
    /\ localIsProp = FALSE
    /\ draftDiscarded = FALSE
    /\ apiFailure = NoFailure
    /\ rejection = NoRejection

\* Variant: the error screen is tested with `if (error)`.
ViewErrorFirst ==
    IF loading /\ metrics = Null THEN "loading"
    ELSE IF error # Null THEN "error"
    ELSE "content"

\* What the component returns: the loading screen, the full-page error
\* with its Retry button, or the dashboard content.
View ==
    IF loading /\ metrics = Null THEN "loading"
    ELSE IF error # Null /\ metrics = Null THEN "error"
    ELSE "content"

\* Variant: the two requests are awaited one after the other.
NewRefreshSequential == [m |-> "pending", v |-> "unsent", outcome |-> "inflight"]

\* Promise.all([getDashboardMetrics(filters), getViolations({...})]):
\* both requests are sent when loadDashboardData is called.
NewRefresh == [m |-> "pending", v |-> "pending", outcome |-> "inflight"]

\* A refresh whose Promise.all was rejected: the handler has run its catch
\* block and awaits neither request any more.
RejectedRefresh == [m |-> "dropped", v |-> "dropped", outcome |-> "failed"]

\* loadDashboardData up to its await; f is the `filters` its closure holds
\* (useCallback on [filters]).
LoadDashboardDataSend(f) ==
    /\ Len(refreshes) < MaxRefresh
    /\ loading' = TRUE
    /\ error' = Null
    /\ refreshes' = Append(refreshes, NewRefresh)
    /\ requestFilters' = Append(requestFilters, f)
    /\ UNCHANGED <<metrics, displayedFilters, violations, lastRefresh, now,
                   lastSettled,
                   lastDelivered, consoleErrors>>

\* The two mount effects: the initial load and the auto-refresh interval.
Mount ==
    /\ ~mounted /\ ~tornDown
    /\ mounted' = TRUE
    /\ refreshTimer' = (refreshInterval > 0)
    /\ LoadDashboardDataSend(filters)
    /\ UNCHANGED <<scanStarts, scanVars, tableVars, viewVars, apiVars,
                   panelVars,
                   lifeVars>>

\* Variant: the interval keeps the loadDashboardData of the mount.
AutoRefreshOfMount ==
    /\ mounted /\ refreshTimer
    /\ LoadDashboardDataSend(initialFilters)
    /\ UNCHANGED <<mounted, refreshTimer, scanStarts, scanVars, tableVars,
                   viewVars, apiVars, panelVars, lifeVars>>

\* The auto-refresh interval fires.
AutoRefresh ==
    /\ mounted /\ refreshTimer
    /\ LoadDashboardDataSend(filters)
    /\ UNCHANGED <<mounted, refreshTimer, scanStarts, scanVars, tableVars,
                   viewVars, apiVars, panelVars, lifeVars>>

\* The header's Refresh button (disabled while loading).
RefreshClick ==
    /\ mounted /\ View = "content" /\ ~loading
    /\ LoadDashboardDataSend(filters)
    /\ UNCHANGED <<mounted, refreshTimer, scanStarts, scanVars, tableVars,
                   viewVars, apiVars, panelVars, lifeVars>>

\* The Retry button of the full-page error.
RetryClick ==
    /\ mounted /\ View = "error"
    /\ LoadDashboardDataSend(filters)
    /\ UNCHANGED <<mounted, refreshTimer, scanStarts, scanVars, tableVars,
                   viewVars, apiVars, panelVars, lifeVars>>

\* The filters of the renders so far: each was sent by the load that the
\* effects ran for it.
RenderedFilters ==
    {filters} \cup {requestFilters[i] : i \in DOMAIN requestFilters}

\* onViolationUpdate={() => loadDashboardData()}: the table, rendered with
\* the content, reports a successful status update.  The table calls the
\* onViolationUpdate of the render in which the status was chosen, and with
\* it that render's loadDashboardData and filters.
OnViolationUpdate ==
    /\ mounted /\ metrics # Null
    /\ \E f \in RenderedFilters : LoadDashboardDataSend(f)
    /\ UNCHANGED <<mounted, refreshTimer, scanStarts, scanVars, tableVars,
                   viewVars, apiVars, panelVars, lifeVars>>

Other(e) == IF e = "m" THEN "v" ELSE "m"

\* Variant: a response is applied only if no newer refresh was issued.
LoadSucceededIfLatest(r, metricsData, violationsData) ==
    /\ metrics' = IF r = Len(refreshes) THEN metricsData ELSE metrics
    /\ violations' = IF r = Len(refreshes) THEN violationsData ELSE violations
    /\ lastRefresh' = IF r = Len(refreshes) THEN now' ELSE lastRefresh
    /\ displayedFilters' =
         IF r = Len(refreshes) THEN requestFilters[r] ELSE displayedFilters
    /\ loading' = FALSE
    /\ UNCHANGED <<error, consoleErrors>>

\* loadDashboardData after its await, Promise.all fulfilled with the
\* payloads metricsData and violationsData.
LoadSucceeded(r, metricsData, violationsData) ==
    /\ metrics' = metricsData
    /\ violations' = violationsData
    /\ displayedFilters' = requestFilters[r]
    /\ lastRefresh' = now'
    /\ loading' = FALSE
    /\ UNCHANGED <<error, consoleErrors>>

\* Variant: the catch block also clears the displayed data.
LoadFailedClearsData(r) ==
    /\ consoleErrors' = consoleErrors + 1
    /\ error' = LoadErrorMessage
    /\ loading' = FALSE
    /\ metrics' = Null
    /\ violations' = <<>>
    /\ UNCHANGED <<lastRefresh, displayedFilters>>

\* loadDashboardData, Promise.all rejected: catch and finally.
LoadFailed(r) ==
    /\ consoleErrors' = consoleErrors + 1
    /\ error' = LoadErrorMessage
    /\ loading' = FALSE
    /\ UNCHANGED <<metrics, displayedFilters, violations, lastRefresh>>

\* One of the two requests of refresh r succeeds while the other is pending.
FetchSucceedsFirst(r, e) ==
    /\ refreshes[r].outcome = "inflight"
    /\ refreshes[r][e] = "pending" /\ refreshes[r][Other(e)] = "pending"
    /\ refreshes' = [refreshes EXCEPT ![r][e] = "ok"]
    /\ now' = now + 1
    /\ UNCHANGED <<mounted, metrics, displayedFilters, violations, loading,
                   error, lastRefresh,
                   refreshTimer, scanStarts, lastSettled, lastDelivered,
                   consoleErrors, scanVars, tableVars, viewVars, apiVars,
                   panelVars,
                   lifeVars, requestFilters>>

\* The second request of refresh r succeeds: Promise.all is fulfilled.
FetchSucceedsLast(r, e, metricsData, violationsData) ==
    /\ refreshes[r].outcome = "inflight"
    /\ refreshes[r][e] = "pending" /\ refreshes[r][Other(e)] = "ok"
    /\ refreshes' = [refreshes EXCEPT ![r][e] = "ok", ![r].outcome = "applied"]
    /\ now' = now + 1
    /\ lastSettled' = r
    /\ lastDelivered' = [metrics |-> metricsData, violations |-> violationsData]
    /\ LoadSucceeded(r, metricsData, violationsData)
    /\ UNCHANGED <<mounted, refreshTimer, scanStarts, scanVars, tableVars,
                   viewVars, apiVars, panelVars, lifeVars, requestFilters>>

\* FetchSucceedsLast for behaviours without end: once no load is in
\* flight, the records of the settled loads are dropped and the clock
\* starts again, so that the record of the loads stays bounded.
FetchSucceedsLastQuiet(r, e, metricsData, violationsData) ==
    /\ refreshes[r].outcome = "inflight"
    /\ refreshes[r][e] = "pending" /\ refreshes[r][Other(e)] = "ok"
    /\ LET settled == [refreshes EXCEPT ![r][e] = "ok",
                                        ![r].outcome = "applied"]
           quiet   == \A i \in DOMAIN settled : settled[i].outcome # "inflight"
       IN  /\ refreshes' = IF quiet THEN <<>> ELSE settled
           /\ requestFilters' = IF quiet THEN <<>> ELSE requestFilters
           /\ lastSettled' = IF quiet THEN 0 ELSE r
           /\ now' = IF quiet THEN 0 ELSE now + 1
    /\ lastDelivered' = [metrics |-> metricsData, violations |-> violationsData]
    /\ LoadSucceeded(r, metricsData, violationsData)
    /\ UNCHANGED <<mounted, refreshTimer, scanStarts, scanVars, tableVars,
                   viewVars, apiVars, panelVars, lifeVars>>

\* A request of refresh r fails: Promise.all is rejected at once, whatever
\* becomes of the other request.
FetchFails(r, e) ==
    /\ refreshes[r].outcome = "inflight"
    /\ refreshes[r][e] = "pending"
    /\ refreshes' = [refreshes EXCEPT ![r] = RejectedRefresh]
    /\ now' = now + 1
    /\ lastSettled' = r
    /\ LoadFailed(r)
    /\ UNCHANGED <<mounted, refreshTimer, scanStarts, lastDelivered, scanVars,
                   tableVars, viewVars, apiVars, panelVars, lifeVars,
                   requestFilters>>

\* startNewScan up to its await (the Scan AWS / Azure / GCP buttons).  The
\* call keeps the loadDashboardData of the render it was made in, and with
\* it that render's filters (useCallback on [loadDashboardData]).
StartNewScan(provider) ==
    /\ mounted /\ View = "content"
    /\ Len(scanStarts) < MaxScanStarts
    /\ scanStarts' = Append(scanStarts,
                            [phase |-> "pending", filters |-> filters])
    /\ UNCHANGED <<mounted, metrics, displayedFilters, violations, loading,
                   error, lastRefresh,
                   refreshTimer, refreshes, now, lastSettled, lastDelivered,
                   consoleErrors, scanVars, tableVars, viewVars, apiVars,
                   panelVars,
                   lifeVars, requestFilters>>

\* Variant: the follow-up timer is set in a finally block.
StartScanResolvesAlwaysSchedules(i, ok) ==
    /\ scanStarts[i].phase = "pending"
    /\ scanStarts' = [scanStarts EXCEPT ![i].phase = "scheduled"]
    /\ error' = IF ok THEN error ELSE ScanErrorMessage
    /\ consoleErrors' = IF ok THEN consoleErrors ELSE consoleErrors + 1
    /\ UNCHANGED <<mounted, metrics, displayedFilters, violations, loading,
                   lastRefresh,
                   refreshTimer, refreshes, now, lastSettled, lastDelivered,
                   scanVars, tableVars, viewVars, apiVars, panelVars, lifeVars,
                   requestFilters>>

\* Variant: the started scan is put on the active-scan list.
StartScanResolvesTracksScan(i, ok) ==
    /\ scanStarts[i].phase = "pending"
    /\ scanStarts' = [scanStarts EXCEPT
                        ![i].phase = IF ok THEN "scheduled" ELSE "failed"]
    /\ error' = IF ok THEN error ELSE ScanErrorMessage
    /\ consoleErrors' = IF ok THEN consoleErrors ELSE consoleErrors + 1
    /\ activeScans' = IF ok
                      THEN Append(activeScans,
                                  [scan_id |-> i, status |-> "running"])
                      ELSE activeScans
    /\ UNCHANGED <<mounted, metrics, displayedFilters, violations, loading,
                   lastRefresh,
                   refreshTimer, refreshes, now, lastSettled, lastDelivered,
                   scanVars, tableVars, viewVars, apiVars, panelVars, tornDown,
                   requestFilters>>

\* startNewScan after its await: the follow-up timer is set, or the catch
\* block records the error.
StartScanResolves(i, ok) ==
    /\ scanStarts[i].phase = "pending"
    /\ scanStarts' = [scanStarts EXCEPT
                        ![i].phase = IF ok THEN "scheduled" ELSE "failed"]
    /\ error' = IF ok THEN error ELSE ScanErrorMessage
    /\ consoleErrors' = IF ok THEN consoleErrors ELSE consoleErrors + 1
    /\ UNCHANGED <<mounted, metrics, displayedFilters, violations, loading,
                   lastRefresh,
                   refreshTimer, refreshes, now, lastSettled, lastDelivered,
                   scanVars, tableVars, viewVars, apiVars, panelVars, lifeVars,
                   requestFilters>>

\* setTimeout(() => loadDashboardData(), 2000) fires.
FollowUpFires(i) ==
    /\ scanStarts[i].phase = "scheduled"
    /\ scanStarts' = [scanStarts EXCEPT ![i].phase = "fired"]
    /\ LoadDashboardDataSend(scanStarts[i].filters)
    /\ UNCHANGED <<mounted, refreshTimer, scanVars, tableVars, viewVars,
                   apiVars,
                   panelVars, lifeVars>>

NextDash ==
    \/ Mount
    \/ AutoRefresh
    \/ RefreshClick
    \/ RetryClick
    \/ OnViolationUpdate
    \/ \E r \in DOMAIN refreshes, e \in {"m", "v"} : FetchSucceedsFirst(r, e)
    \/ \E r \in DOMAIN refreshes, e \in {"m", "v"}, md \in MetricsValues,
          vd \in ViolationLists : FetchSucceedsLast(r, e, md, vd)
    \/ \E r \in DOMAIN refreshes, e \in {"m", "v"} : FetchFails(r, e)
    \/ \E p \in {"AWS", "AZURE", "GCP"} : StartNewScan(p)
    \/ \E i \in DOMAIN scanStarts, ok \in BOOLEAN : StartScanResolves(i, ok)
    \/ \E i \in DOMAIN scanStarts : FollowUpFires(i)

-----------------------------------------------------------------------------
(***************************************************************************)
(* ComplianceApiService: error normalisation                               *)
(***************************************************************************)
\* The bodies of an error response: a JSON object that has or lacks the
\* properties code, message and request_id, an empty body (axios gives the
\* empty string), and the JSON value null.
ResponseData ==
    [kind : {"object"},
     code : {NoValue, "", "RESOURCE_NOT_FOUND"},
     message : {NoValue, "", "Scan not found"},
     request_id : {NoValue, "req-1"}]
    \cup {[kind |-> "empty", code |-> NoValue, message |-> NoValue,
           request_id |-> NoValue],
          [kind |-> "null", code |-> NoValue, message |-> NoValue,
           request_id |-> NoValue]}

\* error.response is not set.
NoResponse == [kind |-> "none"]

\* The errors that reach the response interceptor: with a response, with a
\* request only, with neither.
AxiosErrors ==
    [kind : {"error"},
     response : [kind : {"response"}, status : {404, 500},
                 data : ResponseData] \cup {NoResponse},
     request : BOOLEAN,
     message : {"Request failed", "timeout of 30000ms exceeded"}]

\* `HTTP_${error.response.status}`
HttpCode(status) ==
    CASE status = 404 -> "HTTP_404"
      [] status = 500 -> "HTTP_500"

\* `a || b` on strings: b when a is undefined or empty.
OrElse(a, b) == IF a \in {NoValue, ""} THEN b ELSE a

\* What reading a property of null throws.
TypeErrorThrown ==
    [kind |-> "TypeError", code |-> NoValue,
     message |-> "Cannot read properties of null", request_id |-> NoValue]

ApiErrorOf(code, message, request_id) ==
    [kind |-> "ApiError", code |-> code, message |-> message,
     request_id |-> request_id]

\* Variant: error.request is tested before error.response.
handleApiErrorRequestFirst(e) ==
    IF e.request
    THEN ApiErrorOf("NETWORK_ERROR",
                    "Unable to connect to compliance service", "unknown")
    ELSE IF e.response # NoResponse
    THEN IF e.response.data.kind = "null"
         THEN TypeErrorThrown
         ELSE ApiErrorOf(OrElse(e.response.data.code,
                                HttpCode(e.response.status)),
                         OrElse(e.response.data.message, e.message),
                         OrElse(e.response.data.request_id, "unknown"))
    ELSE ApiErrorOf("REQUEST_ERROR", e.message, "unknown")

\* handleApiError: what the interceptor's handler evaluates to, or throws.
handleApiError(e) ==
    IF e.response # NoResponse
    THEN IF e.response.data.kind = "null"
         THEN TypeErrorThrown
         ELSE ApiErrorOf(OrElse(e.response.data.code,
                                HttpCode(e.response.status)),
                         OrElse(e.response.data.message, e.message),
                         OrElse(e.response.data.request_id, "unknown"))
    ELSE IF e.request
    THEN ApiErrorOf("NETWORK_ERROR",
                    "Unable to connect to compliance service", "unknown")
    ELSE ApiErrorOf("REQUEST_ERROR", e.message, "unknown")

\* A request fails with the error e: the response interceptor logs it and
\* rejects with handleApiError(e).
RequestFails(e) ==
    /\ consoleErrors < MaxFailures
    /\ consoleErrors' = consoleErrors + 1
    /\ apiFailure' = e
    /\ rejection' = handleApiError(e)
    /\ UNCHANGED <<scanVars, violations, tableVars, dashVars, viewVars,
                   panelVars, lifeVars, requestFilters>>

NextApi == \E e \in AxiosErrors : RequestFails(e)

-----------------------------------------------------------------------------
(***************************************************************************)
(* FilterPanel and the orchestrator's lifetime                             *)
(***************************************************************************)
\* The checkboxes of the panel that the model exercises, by dimension.
FilterOptions ==
    [providers |-> {"AWS", "AZURE"}, severities |-> {"CRITICAL"},
     statuses |-> {"OPEN"}, frameworks |-> {"SOC2"}]

\* `(localFilters[field] as any[]) || []`
OrEmpty(list) == IF list = Undefined THEN <<>> ELSE list

Includes(list, value) == \E k \in DOMAIN list : list[k] = value

Without(list, value) == SelectSeq(list, LAMBDA v : v # value)

\* emptyFilters of resetFilters.
emptyFilters ==
    [providers |-> <<>>, severities |-> <<>>, account_ids |-> <<>>,
     frameworks |-> <<>>, statuses |-> <<>>, date_range |-> <<"", "">>]

\* updateFilter: { ...prev, [field]: value }.
updateFilter(draft, field, value) == [draft EXCEPT ![field] = value]

\* Variant: a checked value is never taken out again.
toggleFilterValueAddsOnly(draft, field, value) ==
    IF Includes(OrEmpty(draft[field]), value)
    THEN draft
    ELSE updateFilter(draft, field, Append(OrEmpty(draft[field]), value))

\* toggleFilterValue: the draft after a click on the checkbox `value` of
\* the dimension `field`.
toggleFilterValue(draft, field, value) ==
    IF Includes(OrEmpty(draft[field]), value)
    THEN updateFilter(draft, field, Without(OrEmpty(draft[field]), value))
    ELSE updateFilter(draft, field, Append(OrEmpty(draft[field]), value))

\* A click on a checkbox of the panel.
ToggleFilterValue(field, value) ==
    /\ showFilters
    /\ localFilters' = toggleFilterValue(localFilters, field, value)
    /\ localIsProp' = FALSE
    /\ UNCHANGED <<filters, showFilters, draftDiscarded, dashVars, lifeVars,
                   requestFilters,
                   consoleErrors, violations, scanVars, tableVars, viewVars,
                   apiVars>>

\* Variant: the effects run the loadDashboardData of the previous render.
LoadEffectsStaleClosure(f) ==
    /\ LoadDashboardDataSend(filters)
    /\ refreshTimer' = (refreshInterval > 0)

\* The two effects that depend on loadDashboardData, re-run after a render
\* in which `filters` is the new object f: the load, and the interval
\* (the cleanup clears the old one).
LoadEffects(f) ==
    /\ LoadDashboardDataSend(f)
    /\ refreshTimer' = (refreshInterval > 0)

\* Variant: Reset hands the empty filters to the dashboard as well.
ResetFiltersAndApply ==
    /\ showFilters
    /\ localFilters' = emptyFilters
    /\ localIsProp' = FALSE
    /\ filters' = emptyFilters
    /\ LoadEffects(emptyFilters)
    /\ UNCHANGED <<showFilters, draftDiscarded, mounted, scanStarts, lifeVars,
                   scanVars, tableVars, viewVars, apiVars>>

\* The Reset button.
ResetFilters ==
    /\ showFilters
    /\ localFilters' = emptyFilters
    /\ localIsProp' = FALSE
    /\ UNCHANGED <<filters, showFilters, draftDiscarded, dashVars, lifeVars,
                   requestFilters,
                   consoleErrors, violations, scanVars, tableVars, viewVars,
                   apiVars>>

\* onClose={() => setShowFilters(false)}: the panel and its draft go.
OnClose ==
    /\ showFilters' = FALSE
    /\ localFilters' = NoPanel
    /\ localIsProp' = FALSE

\* The X button of the panel.
ClosePanel ==
    /\ showFilters
    /\ OnClose
    /\ draftDiscarded' = (draftDiscarded \/ ~localIsProp)
    /\ UNCHANGED <<filters, dashVars, lifeVars, requestFilters, consoleErrors,
                   violations, scanVars, tableVars, viewVars, apiVars>>

\* Variant: the panel is hidden, not removed, and keeps its draft.
ToggleFilterPanelKeepsDraft ==
    /\ mounted /\ View = "content"
    /\ showFilters' = ~showFilters
    /\ localFilters' = IF localFilters = NoPanel THEN filters ELSE localFilters
    /\ localIsProp' = IF localFilters = NoPanel THEN TRUE ELSE localIsProp
    /\ draftDiscarded' = (draftDiscarded \/ (showFilters /\ ~localIsProp))
    /\ UNCHANGED <<filters, dashVars, lifeVars, requestFilters, consoleErrors,
                   violations, scanVars, tableVars, viewVars, apiVars>>

\* The header's Filters button: setShowFilters(!showFilters).  The panel is
\* rendered while showFilters holds; a panel that appears starts its draft
\* as the very object it is given as `filters`.
ToggleFilterPanel ==
    /\ mounted /\ View = "content"
    /\ showFilters' = ~showFilters
    /\ localFilters' = IF showFilters THEN NoPanel ELSE filters
    /\ localIsProp' = ~showFilters
    /\ draftDiscarded' = (draftDiscarded \/ (showFilters /\ ~localIsProp))
    /\ UNCHANGED <<filters, dashVars, lifeVars, requestFilters, consoleErrors,
                   violations, scanVars, tableVars, viewVars, apiVars>>

\* Variant: Apply leaves the panel open.
ApplyFiltersStaysOpen ==
    /\ showFilters
    /\ IF localIsProp
       THEN UNCHANGED <<filters, dashVars, requestFilters, consoleErrors,
                        violations>>
       ELSE /\ filters' = localFilters
            /\ LoadEffects(localFilters)
            /\ UNCHANGED <<mounted, scanStarts>>
    /\ UNCHANGED <<showFilters, localFilters, localIsProp>>
    /\ UNCHANGED <<draftDiscarded, lifeVars, scanVars, tableVars, viewVars,
                   apiVars>>

\* applyFilters: onFiltersChange(localFilters), which is setFilters, then
\* onClose().  setFilters with the object that is already the state is no
\* state change; any other object is, and the effects run again.
ApplyFilters ==
    /\ showFilters
    /\ IF localIsProp
       THEN UNCHANGED <<filters, dashVars, requestFilters, consoleErrors,
                        violations>>
       ELSE /\ filters' = localFilters
            /\ LoadEffects(localFilters)
            /\ UNCHANGED <<mounted, scanStarts>>
    /\ OnClose
    /\ UNCHANGED <<draftDiscarded, lifeVars, scanVars, tableVars, viewVars,
                   apiVars>>

\* The component is removed: the cleanup of the interval effect runs
\* (clearInterval); the component's children go with it.
Unmount ==
    /\ mounted
    /\ mounted' = FALSE
    /\ tornDown' = TRUE
    /\ refreshTimer' = FALSE
    /\ OnClose
    /\ UNCHANGED <<filters, draftDiscarded, activeScans, metrics,
                   displayedFilters, loading, error, lastRefresh,
                   refreshes, scanStarts, now, lastSettled, lastDelivered,
                   requestFilters, consoleErrors, violations, scanVars,
                   tableVars, viewVars, apiVars>>

\* The responses carry one payload in the two specifications below: the
\* filters and the timers do not depend on what a refresh delivers.
NextRefreshes ==
    \/ Mount
    \/ AutoRefresh
    \/ RefreshClick
    \/ RetryClick
    \/ OnViolationUpdate
    \/ \E r \in DOMAIN refreshes, e \in {"m", "v"} : FetchSucceedsFirst(r, e)
    \/ \E r \in DOMAIN refreshes, e \in {"m", "v"} :
          FetchSucceedsLast(r, e, "m1", <<Violation("v2", "ACCEPTED")>>)
    \/ \E r \in DOMAIN refreshes, e \in {"m", "v"} : FetchFails(r, e)

\* The orchestrator and its filter panel.
NextPanel ==
    \/ NextRefreshes
    \/ ToggleFilterPanel
    \/ \E value \in FilterOptions.providers :
          ToggleFilterValue("providers", value)
    \/ ResetFilters
    \/ ClosePanel
    \/ ApplyFilters

\* The draft of the panel under the checkboxes of every multi-select
\* dimension, on a dashboard whose loads succeed.
NextDraft ==
    \/ Mount
    \/ \E r \in DOMAIN refreshes, e \in {"m", "v"} : FetchSucceedsFirst(r, e)
    \/ \E r \in DOMAIN refreshes, e \in {"m", "v"} :
          FetchSucceedsLast(r, e, "m1", <<Violation("v2", "ACCEPTED")>>)
    \/ ToggleFilterPanel
    \/ \E field \in DOMAIN FilterOptions :
          \E value \in FilterOptions[field] : ToggleFilterValue(field, value)
    \/ ResetFilters

\* The orchestrator with its filter panel and a scan button, all loads
\* succeeding.
NextFiltered ==
    \/ Mount
    \/ AutoRefresh
    \/ \E r \in DOMAIN refreshes, e \in {"m", "v"} : FetchSucceedsFirst(r, e)
    \/ \E r \in DOMAIN refreshes, e \in {"m", "v"} :
          FetchSucceedsLastQuiet(r, e, "m1", <<Violation("v1", "OPEN")>>)
    \/ ToggleFilterPanel
    \/ ToggleFilterValue("providers", "AWS")
    \/ ApplyFilters
    \/ StartNewScan("AWS")
    \/ \E i \in DOMAIN scanStarts, ok \in BOOLEAN : StartScanResolves(i, ok)
    \/ \E i \in DOMAIN scanStarts : FollowUpFires(i)

\* The orchestrator with its filter panel, mounted for good, all loads
\* succeeding.
NextFair ==
    \/ Mount
    \/ AutoRefresh
    \/ OnViolationUpdate
    \/ \E r \in DOMAIN refreshes, e \in {"m", "v"} : FetchSucceedsFirst(r, e)
    \/ \E r \in DOMAIN refreshes, e \in {"m", "v"} :
          FetchSucceedsLastQuiet(r, e, "m1", <<Violation("v1", "OPEN")>>)
    \/ ToggleFilterPanel
    \/ ToggleFilterValue("providers", "AWS")
    \/ ApplyFilters

\* The orchestrator and its timers, from mount to teardown.
NextLife ==
    \/ NextRefreshes
    \/ \E p \in {"AWS", "AZURE", "GCP"} : StartNewScan(p)
    \/ \E i \in DOMAIN scanStarts, ok \in BOOLEAN : StartScanResolves(i, ok)
    \/ \E i \in DOMAIN scanStarts : FollowUpFires(i)
    \/ Unmount

-----------------------------------------------------------------------------
(***************************************************************************)
(* Specifications                                                          *)
(***************************************************************************)
Init ==
    /\ InitScan /\ InitTable /\ InitDash
    /\ consoleErrors = 0
    /\ violations = <<>>

Next == NextDash

Spec == Init /\ [][Next]_vars

InitOfScan == Init

SpecScan == InitOfScan /\ [][NextScan]_vars

InitOfTable ==
    /\ InitScan /\ InitTable /\ InitDash
    /\ consoleErrors = 0
    /\ violations \in ViolationLists

SpecTable == InitOfTable /\ [][NextTable]_vars

SpecBetweenRefreshes == InitOfTable /\ [][NextBetweenRefreshes]_vars

InitOfView ==
    /\ InitScan /\ InitTable /\ InitDash
    /\ consoleErrors = 0
    /\ violations \in SortInputs

SpecView == InitOfView /\ [][NextView]_vars

InitOfLife == Init

SpecLife == InitOfLife /\ [][NextLife]_vars

InitOfPanel == Init

SpecPanel == InitOfPanel /\ [][NextPanel]_vars

InitOfDraft == Init

SpecDraft == InitOfDraft /\ [][NextDraft]_vars

\* The scan handed to ScanProgress carries its resource counts.
InitOfProgress ==
    /\ \E total \in 0..MaxResources, scanned \in 0..MaxResources :
          scan = [scan_id |-> "s1", status |-> "running",
                  total_resources |-> total, scanned_resources |-> scanned]
    /\ scanLoading = FALSE
    /\ pollTimer = TRUE
    /\ polls = <<>>
    /\ backendScanStatus = "running"
    /\ onScanCompleteCalls = 0
    /\ terminalApplied = FALSE
    /\ InitTable /\ InitDash
    /\ consoleErrors = 0
    /\ violations = <<>>

SpecProgress == InitOfProgress /\ [][NextProgress]_vars

InitOfApi == Init

SpecApi == InitOfApi /\ [][NextApi]_vars

InitOfFiltered == Init

SpecFiltered == InitOfFiltered /\ [][NextFiltered]_vars

InitOfFair == Init

\* The timers fire and the backend answers for as long as they can: the
\* mount effects, the interval of the auto-refresh, the responses of the
\* loads.
Fairness ==
    /\ WF_vars(Mount)
    /\ WF_vars(AutoRefresh)
    /\ \A e \in {"m", "v"} :
          WF_vars(\E r \in DOMAIN refreshes : FetchSucceedsFirst(r, e))
    /\ WF_vars(\E r \in DOMAIN refreshes, e \in {"m", "v"} :
                 FetchSucceedsLastQuiet(r, e, "m1",
                                        <<Violation("v1", "OPEN")>>))

SpecFair == InitOfFair /\ [][NextFair]_vars /\ Fairness

-----------------------------------------------------------------------------
(***************************************************************************)
(* Properties of ScanProgress (SpecScan)                                   *)
(***************************************************************************)

\* C1: once a response reporting completed or failed has been applied to
\* the view, no further automatic poll request is issued for the scan.
C1_NoAutoPollAfterTerminal ==
    [][terminalApplied =>
         ~(Len(polls') > Len(polls) /\ Last(polls').src = "auto")]_vars

\* C2: onScanComplete is invoked exactly once, in the step that takes the
\* view's status into completed, and never again by a later response that
\* also reports completed.
C2_ScanCompleteExactlyOnce ==
    [][/\ (scan.status # "completed" /\ scan'.status = "completed"
             /\ onScanCompleteCalls = 0) => onScanCompleteCalls' = 1
       /\ onScanCompleteCalls' # onScanCompleteCalls =>
             (scan.status # "completed" /\ scan'.status = "completed"
                /\ onScanCompleteCalls = 0)]_vars

\* C3: with a backend whose status never leaves a terminal state, the
\* view's status, once completed or failed, never becomes running again,
\* whatever the order in which poll and refresh responses arrive.
C3_TerminalIsFinal ==
    [][scan.status \in TerminalStatus => scan'.status # "running"]_vars

-----------------------------------------------------------------------------
(***************************************************************************)
(* Properties of ViolationsTable (SpecTable)                               *)
(***************************************************************************)
Resolved(i, phase) ==
    /\ i \in DOMAIN statusUpdates
    /\ statusUpdates[i].phase = "pending"
    /\ statusUpdates'[i].phase = phase

C6_BulkUpdatesEverySelected ==
    [][bulkClicks' > bulkClicks =>
         \A id \in selectedViolations :
            \E i \in DOMAIN statusUpdates' :
               /\ i > Len(statusUpdates)
               /\ statusUpdates'[i].violation_id = id]_vars

-----------------------------------------------------------------------------
(***************************************************************************)
(* Properties of ComplianceDashboard (Spec)                                *)
(***************************************************************************)
Applied == {r \in DOMAIN refreshes : refreshes[r].outcome = "applied"}
Failed == {r \in DOMAIN refreshes : refreshes[r].outcome = "failed"}

Settles(r, outcome) ==
    /\ r \in DOMAIN refreshes
    /\ refreshes[r].outcome = "inflight"
    /\ refreshes'[r].outcome = outcome

\* C7: with metrics displayed, a refresh that fails leaves the displayed
\* metrics and violation list as they were and records an error.
C7_FailedRefreshKeepsData ==
    [][\A r \in DOMAIN refreshes :
          (metrics # Null /\ Settles(r, "failed")) =>
             /\ metrics' = metrics
             /\ violations' = violations
             /\ error' # Null]_vars

\* C7 witness: the refresh that settled last failed after an earlier one
\* had delivered the data on display.
C7_Witness ==
    /\ lastSettled \in Failed
    /\ Applied # {}
    /\ metrics # Null /\ metrics = lastDelivered.metrics
    /\ violations = lastDelivered.violations /\ violations # <<>>
    /\ error # Null

\* C8: the full-page error is rendered only with an error recorded and no
\* metrics ever loaded; once metrics have been loaded, the content with the
\* last-good data is rendered, with or without an error recorded.
C8_FullPageErrorOnlyWithoutData ==
    /\ View = "error" => (error # Null /\ Applied = {})
    /\ Applied # {} =>
         /\ View = "content"
         /\ metrics # Null
         /\ metrics = lastDelivered.metrics
         /\ violations = lastDelivered.violations

\* C8 witness: an error is recorded while loaded data is on display.
C8_Witness ==
    /\ Applied # {}
    /\ error # Null
    /\ View = "content"
    /\ metrics \in MetricsValues

\* C9: a refresh is all-or-nothing.  Both requests are in flight as soon as
\* it is issued; metrics, violations and the timestamp change only in the
\* step in which the second of its two requests succeeds, all three
\* together, the timestamp being that step's time; a refresh that fails,
\* and the first of the two responses of a refresh, change none of them.
C9_RefreshAllOrNothing ==
    [][/\ Len(refreshes') > Len(refreshes) =>
            (Last(refreshes').m = "pending" /\ Last(refreshes').v = "pending")
       /\ (metrics' # metrics \/ violations' # violations
             \/ lastRefresh' # lastRefresh) =>
            \E r \in DOMAIN refreshes : Settles(r, "applied")
       /\ \A r \in DOMAIN refreshes :
            /\ Settles(r, "applied") =>
                 /\ \E e \in {"m", "v"} :
                       refreshes[r][e] = "ok" /\ refreshes[r][Other(e)] = "pending"
                 /\ metrics' = lastDelivered'.metrics
                 /\ violations' = lastDelivered'.violations
                 /\ lastRefresh' = now' /\ now' > now
            /\ Settles(r, "failed") =>
                 /\ metrics' = metrics
                 /\ violations' = violations
                 /\ lastRefresh' = lastRefresh
            /\ (refreshes[r].outcome = "inflight"
                  /\ refreshes'[r].outcome = "inflight"
                  /\ refreshes'[r] # refreshes[r]) =>
                 /\ metrics' = metrics
                 /\ violations' = violations
                 /\ lastRefresh' = lastRefresh]_vars

\* C9 witness: one refresh has been applied, with the time of its second
\* response as timestamp, and another has failed.
C9_Witness ==
    /\ Applied # {} /\ Failed # {}
    /\ lastSettled \in Applied
    /\ lastRefresh = now /\ now >= 3
    /\ metrics = lastDelivered.metrics /\ metrics # Null

\* C10: of refreshes in flight together, the one whose response resolves
\* last determines what is displayed, whichever was issued first; issuing
\* a refresh neither cancels nor replaces one in flight.
C10_LastResolvedWins ==
    /\ [](Applied # {} =>
            /\ metrics = lastDelivered.metrics
            /\ violations = lastDelivered.violations)
    /\ [][Len(refreshes') > Len(refreshes) =>
            /\ Len(refreshes') = Len(refreshes) + 1
            /\ Last(refreshes').outcome = "inflight"
            /\ \A r \in DOMAIN refreshes : refreshes'[r] = refreshes[r]]_vars

\* C10 witness: two refreshes were in flight together, the one issued
\* later resolved first, and the display shows the payload of the one
\* issued earlier, which resolved last.
C10_Witness ==
    \E r1, r2 \in Applied :
        /\ r1 < r2
        /\ lastSettled = r1
        /\ metrics = lastDelivered.metrics
        /\ violations = lastDelivered.violations

-----------------------------------------------------------------------------
(***************************************************************************)
(* Properties of ViolationsTable: sorting, selection, expansion (SpecView, *)
(* SpecTable)                                                              *)
(***************************************************************************)
IdsOf(list) == {list[k].violation_id : k \in DOMAIN list}

IsReordering(list, of) == Len(list) = Len(of) /\ IdsOf(list) = IdsOf(of)

Rank(severity) ==
    CASE severity = "CRITICAL" -> 4
      [] severity = "HIGH" -> 3
      [] severity = "MEDIUM" -> 2
      [] severity = "LOW" -> 1

\* C15: with sort field severity, the displayed rows are the given rows in
\* an order that is non-increasing in the rank CRITICAL(4) > HIGH(3) >
\* MEDIUM(2) > LOW(1) when the direction is descending, and non-decreasing
\* when it is ascending.
C15_SeverityOrder ==
    sortField = "severity" =>
       /\ IsReordering(sortedViolations, violations)
       /\ \A i, j \in DOMAIN sortedViolations :
             i < j =>
                IF sortDirection = "desc"
                THEN Rank(sortedViolations[i].severity) >=
                        Rank(sortedViolations[j].severity)
                ELSE Rank(sortedViolations[i].severity) <=
                        Rank(sortedViolations[j].severity)

\* C15 witness: rows given as LOW, CRITICAL, HIGH are displayed as
\* CRITICAL, HIGH, LOW.
C15_Witness ==
    /\ sortField = "severity" /\ sortDirection = "desc"
    /\ [k \in DOMAIN violations |-> violations[k].severity] =
          <<"LOW", "CRITICAL", "HIGH">>
    /\ [k \in DOMAIN sortedViolations |-> sortedViolations[k].severity] =
          <<"CRITICAL", "HIGH", "LOW">>

Position(list, v) ==
    CHOOSE k \in DOMAIN list : list[k].violation_id = v.violation_id

\* C16: for every list and sort field, the ascending and the descending
\* order are reorderings of the list in which two rows with equal keys
\* stand as in the list, and two rows with different keys stand by their
\* keys in the ascending order and the other way round in the descending
\* order.
C16_StableTotalOrder ==
    LET asc == ArraySort(violations, sortField, "asc")
        desc == ArraySort(violations, sortField, "desc")
        Key(v) == SortValue(v, sortField)
    IN  /\ IsReordering(asc, violations)
        /\ IsReordering(desc, violations)
        /\ \A p, q \in DOMAIN violations :
              p < q =>
                 LET a == violations[p]
                     b == violations[q]
                 IN  IF Key(a) = Key(b)
                     THEN /\ Position(asc, a) < Position(asc, b)
                          /\ Position(desc, a) < Position(desc, b)
                     ELSE /\ Position(asc, a) < Position(asc, b)
                               <=> LessThan(sortField, Key(a), Key(b))
                          /\ Position(desc, a) < Position(desc, b)
                               <=> Position(asc, b) < Position(asc, a)

\* C16 witness: sorted by policy name, descending, a list with rows whose
\* names differ in case only and rows whose names differ is displayed in
\* another order than given.
C16_Witness ==
    /\ sortField = "policy_name" /\ sortDirection = "desc"
    /\ sortedViolations # violations
    /\ \E p, q \in DOMAIN violations :
          /\ p < q
          /\ violations[p].policy_name # violations[q].policy_name
          /\ ToLowerCase(violations[p].policy_name) =
                ToLowerCase(violations[q].policy_name)
    /\ \E p, q \in DOMAIN violations :
          ToLowerCase(violations[p].policy_name) #
             ToLowerCase(violations[q].policy_name)

\* C17: the sort state starts as (detected_at, desc); a click on the header
\* of the active sort field flips the direction and keeps the field; a click
\* on the header of another field sets that field with direction desc.
C17_HeaderClick ==
    /\ (sortField = "detected_at" /\ sortDirection = "desc")
    /\ [][\A field \in SortFields :
             HandleSort(field) =>
                IF field = sortField
                THEN /\ sortField' = sortField
                     /\ sortDirection' # sortDirection
                     /\ sortDirection' \in {"asc", "desc"}
                ELSE /\ sortField' = field
                     /\ sortDirection' = "desc"]_vars

\* C17 witness: the table is sorted by severity, ascending: the severity
\* header was clicked twice.
C17_Witness ==
    /\ sortField = "severity" /\ sortDirection = "asc"
    /\ Len(violations) > 1

\* C18: toggle-all selects exactly the displayed ids when not every
\* displayed violation is selected, and clears the selection when every
\* displayed violation is selected.
C18_ToggleAllSelectsVisible ==
    [][ToggleAll =>
         selectedViolations' =
            IF DisplayedIds \subseteq selectedViolations
            THEN {}
            ELSE DisplayedIds]_vars

\* C19: at most one detail row is rendered; the Details button of a row
\* that is not expanded makes it the expanded one, and the button of the
\* expanded row leaves none expanded.
C19_AtMostOneExpanded ==
    /\ [](Cardinality({k \in DOMAIN violations :
                         DetailsExpanded(violations[k])}) <= 1)
    /\ [][\A k \in DOMAIN violations :
             ToggleDetails(k) =>
                LET row == sortedViolations[k]
                IN  /\ DetailsExpanded(row) => expandedViolation' = Null
                    /\ ~DetailsExpanded(row) =>
                          expandedViolation' = row.violation_id]_vars

\* C19 witness: of several rows, one that is not displayed first is the
\* expanded one.
C19_Witness ==
    /\ Len(violations) > 2
    /\ \E k \in DOMAIN sortedViolations :
          /\ k > 1
          /\ DetailsExpanded(sortedViolations[k])
          /\ ~DetailsExpanded(sortedViolations[1])

-----------------------------------------------------------------------------
(***************************************************************************)
(* Properties of the orchestrator: filters, timers (SpecPanel, SpecLife,   *)
(* Spec)                                                                   *)
(***************************************************************************)
IssuesFullRefresh(f) ==
    /\ Len(refreshes') = Len(refreshes) + 1
    /\ Last(refreshes').m = "pending" /\ Last(refreshes').v = "pending"
    /\ Len(requestFilters') = Len(refreshes')
    /\ Last(requestFilters') = f

\* C11: a full refresh (metrics and violations) is issued on mount and in
\* every step that changes the applied filters, and the refresh issued for
\* a change of the filters carries the newly applied filters.
C11_RefreshOnMountAndFilterChange ==
    [][/\ (~mounted /\ mounted') => IssuesFullRefresh(filters)
       /\ filters' # filters => IssuesFullRefresh(filters')]_vars

\* C11 witness: the load of the mount carried the initial filters, and a
\* second one carries the filters applied since.
C11_Witness ==
    /\ Len(requestFilters) = 2
    /\ requestFilters[1] = initialFilters
    /\ requestFilters[2] = filters
    /\ filters # initialFilters
    /\ filters.providers # <<>>

\* C12: once the orchestrator is torn down, no refresh is issued: neither
\* by the auto-refresh interval nor by a pending start-scan follow-up.
C12_NoRefreshAfterTeardown ==
    [][tornDown => Len(refreshes') = Len(refreshes)]_vars

ScanStartMoves(i, from, to) ==
    /\ scanStarts[i].phase = from
    /\ scanStarts'[i].phase = to

\* C13: a start-scan whose call succeeds sets one follow-up timer and
\* records no error; the timer issues one full refresh and is then spent;
\* a start-scan whose call fails records the error and never issues a
\* follow-up refresh.
C13_OneFollowUpPerStartedScan ==
    [][\A i \in DOMAIN scanStarts :
          /\ scanStarts[i].phase = "pending" =>
                scanStarts'[i].phase \in {"pending", "scheduled", "failed"}
          /\ ScanStartMoves(i, "pending", "scheduled") =>
                /\ error' = error /\ consoleErrors' = consoleErrors
                /\ refreshes' = refreshes
          /\ ScanStartMoves(i, "pending", "failed") =>
                /\ error' = ScanErrorMessage
                /\ consoleErrors' = consoleErrors + 1
                /\ refreshes' = refreshes
          /\ scanStarts[i].phase = "scheduled" =>
                scanStarts'[i].phase \in {"scheduled", "fired"}
          /\ ScanStartMoves(i, "scheduled", "fired") =>
                /\ Len(refreshes') = Len(refreshes) + 1
                /\ Last(refreshes').m = "pending"
                /\ Last(refreshes').v = "pending"
          /\ scanStarts[i].phase \in {"failed", "fired"} =>
                scanStarts'[i] = scanStarts[i]]_vars

\* C13 witness: the follow-up of a started scan has fired; its refresh is
\* the second one, after the load of the mount.
C13_Witness ==
    /\ \E i \in DOMAIN scanStarts : scanStarts[i].phase = "fired"
    /\ Len(refreshes) = 2
    /\ error = Null

C20_ApplyCopiesDraftAndCloses ==
    [][ApplyFilters => (filters' = localFilters /\ ~showFilters')]_vars

\* C20 witness: filters that only a draft can produce are applied, and the
\* panel is closed.
C20_Witness ==
    /\ filters = [initialFilters EXCEPT !.providers = <<"AZURE", "AWS">>]
    /\ ~showFilters
    /\ localFilters = NoPanel


-----------------------------------------------------------------------------
(***************************************************************************)
(* Claims C21 - C30                                                        *)
(***************************************************************************)
\* The multi-select dimensions of the filters.
MultiSelectFields ==
    {"providers", "severities", "account_ids", "frameworks", "statuses"}

\* C21: Reset makes the draft all-empty (every multi-select dimension the
\* empty list, the date range blank), leaves the applied filters alone and
\* triggers no refresh; the applied filters change only in an Apply step.
C21_ResetClearsDraftOnly ==
    [][/\ ResetFilters =>
            /\ \A field \in MultiSelectFields : localFilters'[field] = <<>>
            /\ localFilters'.date_range = <<"", "">>
            /\ filters' = filters
            /\ refreshes' = refreshes /\ requestFilters' = requestFilters
            /\ loading' = loading
       /\ (filters' # filters) => ApplyFilters]_vars

\* C21 witness: with the provider AWS applied, the reopened panel has been
\* reset: its draft is all-empty while the applied filters still name AWS.
C21_Witness ==
    /\ showFilters /\ ~localIsProp
    /\ localFilters.providers = <<>> /\ localFilters.statuses = <<>>
    /\ localFilters.date_range = <<"", "">>
    /\ filters.providers = <<"AWS">>

\* C22: Close discards the draft without applying.  While the panel stays
\* open the applied filters do not change; a step that closes the panel
\* other than Apply changes neither the applied filters nor the refreshes;
\* a panel that opens has the applied filters as its draft.
C22_CloseDiscardsDraft ==
    [][/\ (showFilters /\ showFilters') => filters' = filters
       /\ (showFilters /\ ~showFilters' /\ ~ApplyFilters) =>
            /\ filters' = filters
            /\ refreshes' = refreshes /\ requestFilters' = requestFilters
       /\ (~showFilters /\ showFilters') => localFilters' = filters']_vars

\* C22 witness: an edited draft has been discarded by closing the panel, and
\* the panel is open again on the applied filters.
C22_Witness ==
    /\ draftDiscarded
    /\ showFilters /\ localIsProp /\ localFilters = filters

\* The values a dimension of the filters holds.
Members(list) == {OrEmpty(list)[k] : k \in DOMAIN OrEmpty(list)}

\* C23: toggling a value of a multi-select dimension adds it when absent
\* and removes it when present, leaves every other dimension of the draft
\* unchanged, and toggling it twice restores the dimension's membership.
C23_ToggleFlipsMembership ==
    showFilters =>
      \A field \in DOMAIN FilterOptions : \A value \in FilterOptions[field] :
        LET before == Members(localFilters[field])
            once   == toggleFilterValue(localFilters, field, value)
            twice  == toggleFilterValue(once, field, value)
        IN  /\ Members(once[field]) = IF value \in before
                                      THEN before \ {value}
                                      ELSE before \cup {value}
            /\ \A other \in FilterFields \ {field} :
                  once[other] = localFilters[other]
            /\ Members(twice[field]) = before

\* C23 witness: CRITICAL has been checked and unchecked again in a draft
\* that was never reset, and both providers have been checked.
C23_Witness ==
    /\ showFilters
    /\ localFilters.severities = <<>> /\ localFilters.frameworks = Undefined
    /\ localFilters.providers = <<"AZURE", "AWS">>

C26_InProgressCanBeResolved ==
    \A k \in DOMAIN violations :
        violations[k].status = "IN_PROGRESS" =>
            "RESOLVED" \in StatusSelectOptions(violations[k])

\* C29: the selection is a subset of the displayed ids; hence the
\* select-all checkbox is checked exactly when every displayed violation
\* is selected, and the bulk-action count is the number of displayed
\* violations that are selected.
C29_SelectionWithinDisplayed ==
    /\ selectedViolations \subseteq DisplayedIds
    /\ Len(violations) > 0 =>
          (AllChecked <=> DisplayedIds \subseteq selectedViolations)
    /\ Cardinality(selectedViolations) =
          Cardinality(selectedViolations \cap DisplayedIds)

\* C30: between two applications of a refreshed list, at most one
\* status-update request is issued for a violation.
C30_OneRequestPerViolation ==
    \A i, j \in DOMAIN statusUpdates :
        statusUpdates[i].violation_id = statusUpdates[j].violation_id => i = j

\* C27: every fetch of metrics and violations carries the filters that are
\* applied when it is issued, the follow-up of a start-scan and the refresh
\* after a status update included.
C27_FetchCarriesAppliedFilters ==
    [][Len(requestFilters') > Len(requestFilters) =>
         Last(requestFilters') = filters']_vars

\* C28: if the applied filters eventually stop changing, then eventually
\* and from then on the displayed metrics and violations are ones fetched
\* with the applied filters.
C28_DisplayedDataCatchesUp ==
    <>[][filters' = filters]_vars => <>[](displayedFilters = filters)

\* C28 witness: no load is in flight and the displayed data was fetched
\* with filters that are no longer the applied ones: a stale response has
\* overwritten newer data, and only a later load can replace it.
C28_Witness ==
    /\ mounted /\ refreshes = <<>>
    /\ displayedFilters # NoData /\ displayedFilters # filters

=============================================================================
